---- MODULE Spec2Model ----
(***************************************************************************)
(* vmclone: the staged transaction VMTransaction (vmclone/transaction.py). *)
(*                                                                         *)
(* One transaction object driven by one caller thread.  Every public call  *)
(* (initialize, prepare, begin, commit, the disk_filter setter and the     *)
(* guarded read accessors) is an action.  commit() is the only call that   *)
(* makes more than one external call, so it is cut at its external calls   *)
(* (isActive, blockCommit, blockJobInfo, blockJobAbort, os.remove): each   *)
(* commit_* action is one external call, its outcome, and the code that    *)
(* follows it up to the next external call.                                *)
(*                                                                         *)
(* The hypervisor and the file system are the environment: every call may  *)
(* return or raise, and what it returns is chosen nondeterministically.    *)
(* hvcall is the hypervisor call the last step made (None: it made none);  *)
(* ncreate, nactive, committed, pivoted and removed record the calls made  *)
(* so far; lastop, raised, retval and message record what the caller of    *)
(* the last public call observed.                                          *)
(***************************************************************************)
EXTENDS Integers, Sequences, FiniteSets

(***************************************************************************)
(* Bounds of the model.                                                    *)
(***************************************************************************)
\* How many "job still running" polls one device may get in commit().
MaxPolls == 1
\* Block-job counters cur and end range over 0..MaxCounter.
MaxCounter == 1

(***************************************************************************)
(* TransactionStage (IntEnum).                                             *)
(***************************************************************************)
FAILED == -1
UNINITIALIZED == 0
INITIALIZED == 1
PREPARED == 2
BEGUN == 3
COMMITTING == 4
FINISHED == 5

Stages == {FAILED, UNINITIALIZED, INITIALIZED, PREPARED, BEGUN, COMMITTING, FINISHED}

(***************************************************************************)
(* Values.  Python's None is the empty tuple and a present value v is the  *)
(* one-element tuple <<v>>, so that "is None" is a comparison of tuples.   *)
(* A path is kept in the parts os.path splits it into.                     *)
(***************************************************************************)
None == <<>>
Some(v) == <<v>>

Path(d, s, e) == [dir |-> d, stem |-> s, ext |-> e]
\* xpath('string(...)') of an attribute the node does not have
EmptyPath == Path("", <<>>, "")

\* A <disk> node of the domain XML, with the attributes the code reads.
\* srcattr is the attribute of <source> that carries the path: libvirt writes
\* file= for a file-backed disk, dev= for a block device, name= for a network disk.
DiskNode(dev, device, type, srcattr, src, snap, ro, drvtype) ==
    [dev |-> dev, device |-> device, type |-> type, srcattr |-> srcattr,
     source |-> src, snapshot |-> snap, readonly |-> ro, shareable |-> FALSE,
     transient |-> FALSE, driver_name |-> "qemu", driver_type |-> drvtype]

vm1 ==
    [name |-> "vm1",
     disks |-> << DiskNode("vda", "disk", "file", "file", Path("/data", <<"vm1">>, ".qcow2"), "", FALSE, "qcow2"),
                  DiskNode("vdc", "disk", "network", "name", Path("pool", <<"img">>, ""), "", FALSE, "raw") >>]
vm2 ==
    [name |-> "vm2",
     disks |-> << DiskNode("vda", "disk", "file", "file", Path("/data", <<"a">>, ".qcow2"), "", FALSE, "qcow2"),
                  DiskNode("vdb", "disk", "block", "dev", Path("/dev", <<"sdb">>, ""), "", FALSE, "raw") >>]
vm3 ==
    [name |-> "vm3",
     disks |-> << DiskNode("vda", "disk", "file", "file", Path("/data", <<"a">>, ".qcow2"), "", FALSE, "qcow2"),
                  DiskNode("vdb", "disk", "file", "file", Path("/data", <<"a">>, ".raw"), "", FALSE, "raw") >>]

\* The domains a transaction may be constructed over.
Domains == {vm1, vm2, vm3}
\* workdir: "" stands for None (the code only tests its truth value).
Workdirs == {"", "/w"}
\* disk_filter: "None" is no filter (the default one is used); the others are
\* caller-supplied predicates.
Filters == {"None", "accept_all", "reject_all"}
\* What a hypervisor call raises when it fails (begin() and commit() catch
\* BaseException, so an interrupt of the call is caught like a libvirt error).
HvExceptions == {"libvirtError", "KeyboardInterrupt"}

VARIABLES
    (* constructor arguments *)
    _domain, _workdir, _disk_only, _quiesce, _disk_filter,
    (* fields *)
    _stage, _domain_name, _domain_xmltree, _snapshot_xmltree, _snapshot_flags,
    _snapshot_disks_readonly, _snapshot_disks,
    (* commit()'s position and locals *)
    pc, active, deleting_files, idx, npolls, exceptions,
    (* the environment's record of the external calls made *)
    hvcall, ncreate, nactive, committed, pivoted, removed,
    (* what the caller of the last public call saw *)
    lastop, lastarg, raised, retval, message,
    (* where the caller of clone_vm is with its with-block *)
    with_block

\* what no method of VMTransaction assigns: the constructor arguments, and
\* the position of the with-block of clone_vm's caller
config == <<_domain, _workdir, _disk_only, _quiesce, with_block>>
fields == <<_domain_name, _domain_xmltree, _snapshot_xmltree, _snapshot_flags, _snapshot_disks>>
locals == <<pc, active, deleting_files, idx, npolls, exceptions>>
calls == <<ncreate, nactive, committed, pivoted, removed>>
env == <<hvcall, calls>>
seen == <<lastop, lastarg, raised, retval, message>>
vars == <<config, _disk_filter, _stage, fields, _snapshot_disks_readonly, locals, env, seen>>

(***************************************************************************)
(* Pure helpers.                                                           *)
(***************************************************************************)
\* bool(workdir): None and '' are false
Truthy(s) == s # ""

\* node.xpath('string(source/@<attr>)'): the attribute's value, '' when absent
xpath_source(node, attr) == IF node.srcattr = attr THEN node.source ELSE EmptyPath

default_disk_filter(node) ==
    IF node.snapshot = "no" \/ node.readonly \/ node.shareable \/ node.transient
    THEN FALSE
    ELSE IF node.driver_name # "qemu"
    THEN FALSE
    ELSE IF node.driver_type \notin {"raw", "qcow2"}
    THEN FALSE
    ELSE IF node.device = "disk" /\ node.type \in {"file", "block"}
    THEN TRUE
    ELSE FALSE

\* prepare(): disk_filter = self._disk_filter if self._disk_filter else default_disk_filter
apply_filter(f, node) ==
    CASE f = "None" -> default_disk_filter(node)
      [] f = "accept_all" -> TRUE
      [] f = "reject_all" -> FALSE

\* prepare(): the disks of the domain the filter accepts, in document order
select_disks(f, tree) == SelectSeq(tree.disks, LAMBDA node : apply_filter(f, node))

\* _prepare_snapshot_xml: the delta file of one disk
delta_file(node) ==
    IF Truthy(_workdir)
    THEN Path(_workdir, <<_domain_name[1], node.dev, "unmerged">>, ".qcow2")
    ELSE LET source_file == xpath_source(node, "file")
         IN  Path(source_file.dir, source_file.stem \o <<"unmerged">>, ".qcow2")

\* Mutant: the workdir of the memory file is not checked.
prepare_snapshot_xml_raises_nomem(disk_nodes) ==
    \E i \in 1..Len(disk_nodes) : ~Truthy(_workdir) /\ disk_nodes[i].type # "file"

\* _prepare_snapshot_xml raises TypeError
prepare_snapshot_xml_raises(disk_nodes) ==
    \/ ~_disk_only /\ ~Truthy(_workdir)
    \/ \E i \in 1..Len(disk_nodes) : ~Truthy(_workdir) /\ disk_nodes[i].type # "file"

\* _prepare_snapshot_xml: the <domainsnapshot> tree
_prepare_snapshot_xml(disk_nodes) ==
    [memory |-> IF _disk_only
                THEN [snapshot |-> "no", file |-> EmptyPath]
                ELSE [snapshot |-> "external", file |-> Path(_workdir, <<"memory">>, ".state")],
     disks |-> [i \in 1..Len(disk_nodes) |->
                  [name |-> disk_nodes[i].dev, snapshot |-> "external",
                   file |-> delta_file(disk_nodes[i]), driver_type |-> "qcow2"]]]

\* _prepare_snapshot: the creation flags
prepare_snapshot_flags ==
    {"NO_METADATA", "ATOMIC"}
      \cup (IF _disk_only THEN {"DISK_ONLY"} ELSE {})
      \cup (IF _quiesce THEN {"QUIESCE"} ELSE {})

\* snapshot_disks: mapper(node); source is bound only for file and block
mapper_raises(node) == node.type \notin {"file", "block"}
mapper(node) ==
    [device |-> node.dev,
     source |-> IF node.type = "file" THEN xpath_source(node, "file")
                ELSE xpath_source(node, "block"),
     source_type |-> node.type]

\* Mutant: the check compares with < instead of !=.
_check_stage_ge(expected) == _stage >= expected

\* Mutant: the check lets a failed transaction through (retry in place).
_check_stage_or_failed(expected) == _stage = expected \/ _stage = FAILED

\* _check_stage passes (does not raise BadStageError)
_check_stage(expected) == _stage = expected

\* _check_stage_between passes
_check_stage_between(start, end) == ~(_stage < start \/ _stage > end)

\* bandwidth = 0
bandwidth == 0

\* A hypervisor call and what it gave back; only blockCommit takes a bandwidth.
HvCall(fn, dev, file, flags, res, info) ==
    [fn |-> fn, dev |-> dev, file |-> file, flags |-> flags, res |-> res, info |-> info,
     bandwidth |-> IF fn = "blockCommit" THEN Some(bandwidth) ELSE None]

(***************************************************************************)
(* Init: the state __init__ leaves.                                        *)
(***************************************************************************)
Init ==
    /\ _domain \in Domains
    /\ _workdir \in Workdirs
    /\ _disk_only \in BOOLEAN
    /\ _quiesce \in BOOLEAN
    /\ _disk_filter \in Filters
    /\ _stage = UNINITIALIZED
    /\ _domain_name = None
    /\ _domain_xmltree = None
    /\ _snapshot_xmltree = None
    /\ _snapshot_flags = {}
    /\ _snapshot_disks_readonly = None
    /\ _snapshot_disks = <<>>
    /\ pc = "idle"
    /\ active = FALSE
    /\ deleting_files = <<>>
    /\ idx = 0
    /\ npolls = 0
    /\ exceptions = <<>>
    /\ hvcall = None
    /\ ncreate = 0
    /\ nactive = 0
    /\ committed = <<>>
    /\ pivoted = <<>>
    /\ removed = <<>>
    /\ with_block = "none"
    /\ lastop = "__init__"
    /\ lastarg = None
    /\ raised = "none"
    /\ retval = None
    /\ message = None

(***************************************************************************)
(* How a public call ends.                                                 *)
(***************************************************************************)
\* the call named op raised exc to its caller
Raises(op, exc) ==
    lastop' = op /\ lastarg' = None /\ raised' = exc /\ retval' = None /\ message' = None
\* the call named op returned v
Returns(op, v) ==
    lastop' = op /\ lastarg' = None /\ raised' = "none" /\ retval' = v /\ message' = None
\* commit() has passed its stage check and is running
Running(op) == Returns(op, None)
\* the step makes no hypervisor call and removes no file
NoExternalCall == hvcall' = None /\ UNCHANGED calls
\* the stage check of op failed: BadStageError, nothing else touched
BadStage(op) ==
    /\ Raises(op, "BadStageError")
    /\ NoExternalCall
    /\ UNCHANGED <<config, _disk_filter, _stage, fields, _snapshot_disks_readonly, locals>>

(***************************************************************************)
(* The calls before commit().                                              *)
(***************************************************************************)
initialize ==
    /\ pc = "idle"
    /\ IF ~_check_stage(UNINITIALIZED)
       THEN BadStage("initialize")
       ELSE /\ \E res \in {"ok"} \cup HvExceptions :
                 /\ hvcall' = Some(HvCall("XMLDesc", "", EmptyPath, {}, res, None))
                 /\ IF res = "ok"
                    THEN /\ _domain_xmltree' = Some(_domain)
                         /\ _domain_name' = Some(_domain.name)
                         /\ _stage' = INITIALIZED
                         /\ Returns("initialize", None)
                    ELSE /\ Raises("initialize", res)
                         /\ UNCHANGED <<_stage, _domain_xmltree, _domain_name>>
            /\ UNCHANGED <<config, _disk_filter, _snapshot_xmltree, _snapshot_flags,
                           _snapshot_disks, _snapshot_disks_readonly, locals, calls>>

prepare ==
    /\ pc = "idle"
    /\ IF ~_check_stage(INITIALIZED)
       THEN BadStage("prepare")
       ELSE LET disks == select_disks(_disk_filter, _domain_xmltree[1])
            IN  /\ _snapshot_disks' = disks
                /\ IF prepare_snapshot_xml_raises(disks)
                   THEN /\ Raises("prepare", "TypeError")
                        /\ UNCHANGED <<_stage, _snapshot_xmltree, _snapshot_flags>>
                   ELSE /\ _snapshot_xmltree' = Some(_prepare_snapshot_xml(disks))
                        /\ _snapshot_flags' = prepare_snapshot_flags
                        /\ _stage' = PREPARED
                        /\ Returns("prepare", None)
                /\ NoExternalCall
                /\ UNCHANGED <<config, _disk_filter, _domain_name, _domain_xmltree,
                               _snapshot_disks_readonly, locals>>

\* Mutant: the except branch does not set the stage.
begin_keeps_stage ==
    /\ pc = "idle"
    /\ IF ~_check_stage(PREPARED)
       THEN BadStage("begin")
       ELSE /\ \E res \in {"ok"} \cup HvExceptions :
                 /\ hvcall' = Some(HvCall("snapshotCreateXML", "", EmptyPath,
                                          _snapshot_flags, res, None))
                 /\ IF res = "ok"
                    THEN _stage' = BEGUN /\ Returns("begin", None)
                    ELSE _stage' = _stage /\ Raises("begin", res)
            /\ ncreate' = ncreate + 1
            /\ UNCHANGED <<config, _disk_filter, fields, _snapshot_disks_readonly,
                           locals, nactive, committed, pivoted, removed>>

\* Mutant: the except branch also discards the prepared snapshot.
begin_discards_snapshot ==
    /\ pc = "idle"
    /\ IF ~_check_stage(PREPARED)
       THEN BadStage("begin")
       ELSE /\ \E res \in {"ok"} \cup HvExceptions :
                 /\ hvcall' = Some(HvCall("snapshotCreateXML", "", EmptyPath,
                                          _snapshot_flags, res, None))
                 /\ IF res = "ok"
                    THEN /\ _stage' = BEGUN /\ Returns("begin", None)
                         /\ UNCHANGED <<_snapshot_xmltree, _snapshot_flags>>
                    ELSE /\ _stage' = FAILED /\ Raises("begin", res)
                         /\ _snapshot_xmltree' = None /\ _snapshot_flags' = {}
            /\ ncreate' = ncreate + 1
            /\ UNCHANGED <<config, _disk_filter, _domain_name, _domain_xmltree,
                           _snapshot_disks, _snapshot_disks_readonly,
                           locals, nactive, committed, pivoted, removed>>

begin ==
    /\ pc = "idle"
    /\ IF ~_check_stage(PREPARED)
       THEN BadStage("begin")
       ELSE /\ \E res \in {"ok"} \cup HvExceptions :
                 /\ hvcall' = Some(HvCall("snapshotCreateXML", "", EmptyPath,
                                          _snapshot_flags, res, None))
                 /\ IF res = "ok"
                    THEN _stage' = BEGUN /\ Returns("begin", None)
                    ELSE _stage' = FAILED /\ Raises("begin", res)
            /\ ncreate' = ncreate + 1
            /\ UNCHANGED <<config, _disk_filter, fields, _snapshot_disks_readonly,
                           locals, nactive, committed, pivoted, removed>>

\* Mutant: the end of the range is left to its default.
disk_filter_setter_end_default == FINISHED

\* the last stage in which the disk_filter setter is let through
disk_filter_setter_end == INITIALIZED

\* disk_filter = func
disk_filter_setter(func) ==
    /\ pc = "idle"
    /\ IF ~_check_stage_between(UNINITIALIZED, disk_filter_setter_end)
       THEN BadStage("disk_filter=")
       ELSE /\ _disk_filter' = func
            /\ lastop' = "disk_filter="
            /\ lastarg' = Some(func)
            /\ raised' = "none" /\ retval' = None /\ message' = None
            /\ NoExternalCall
            /\ UNCHANGED <<config, _stage, fields, _snapshot_disks_readonly, locals>>

(***************************************************************************)
(* The read accessors.                                                     *)
(***************************************************************************)
stage ==
    /\ pc = "idle"
    /\ Returns("stage", Some(_stage))
    /\ NoExternalCall
    /\ UNCHANGED <<config, _disk_filter, _stage, fields, _snapshot_disks_readonly, locals>>

snapshot_xml ==
    /\ pc = "idle"
    /\ IF ~_check_stage_between(PREPARED, FINISHED)
       THEN BadStage("snapshot_xml")
       ELSE /\ Returns("snapshot_xml", _snapshot_xmltree)
            /\ NoExternalCall
            /\ UNCHANGED <<config, _disk_filter, _stage, fields, _snapshot_disks_readonly,
                           locals>>

snapshot_flags ==
    /\ pc = "idle"
    /\ IF ~_check_stage_between(PREPARED, FINISHED)
       THEN BadStage("snapshot_flags")
       ELSE /\ Returns("snapshot_flags", Some(_snapshot_flags))
            /\ NoExternalCall
            /\ UNCHANGED <<config, _disk_filter, _stage, fields, _snapshot_disks_readonly,
                           locals>>

snapshot_disks ==
    /\ pc = "idle"
    /\ IF ~_check_stage_between(PREPARED, FINISHED)
       THEN BadStage("snapshot_disks")
       ELSE /\ IF _snapshot_disks_readonly # None
               THEN /\ Returns("snapshot_disks", _snapshot_disks_readonly[1])
                    /\ UNCHANGED _snapshot_disks_readonly
               ELSE IF \E i \in 1..Len(_snapshot_disks) : mapper_raises(_snapshot_disks[i])
               THEN /\ Raises("snapshot_disks", "UnboundLocalError")
                    /\ UNCHANGED _snapshot_disks_readonly
               ELSE LET t == [i \in 1..Len(_snapshot_disks) |-> mapper(_snapshot_disks[i])]
                    IN  /\ _snapshot_disks_readonly' = Some(t)
                        /\ Returns("snapshot_disks", t)
            /\ NoExternalCall
            /\ UNCHANGED <<config, _disk_filter, _stage, fields, locals>>

(***************************************************************************)
(* commit().                                                               *)
(***************************************************************************)
\* Mutant: the disks are visited last to first.
snap_disks_reversed ==
    LET d == _snapshot_xmltree[1].disks
    IN  [i \in 1..Len(d) |-> d[Len(d) + 1 - i]]

\* snap_disks = self._snapshot_xmltree.xpath('/domainsnapshot/disks/disk')
snap_disks == _snapshot_xmltree[1].disks

\* What blockJobInfo may return: {} (no job), or a status with cur and end.
JobInfos == {None} \cup {<<cur, end>> : cur \in 0..MaxCounter, end \in 0..MaxCounter}

\* not len(info): blockJobInfo reports no job
no_job(info) == Len(info) = 0

\* Mutant: a job that has passed its end counts as ready too.
job_ready_ge(info) == info[1] >= info[2]

\* info['cur'] == info['end']: the job is ready to pivot
job_ready(info) == info[1] = info[2]

\* Mutant: blockCommit always asks for an active commit.
block_commit_flags_always_active == {"SHALLOW", "ACTIVE"}

\* flags of blockCommit
block_commit_flags == {"SHALLOW"} \cup (IF active THEN {"ACTIVE"} ELSE {})

\* Mutant: the except branch puts the stage back to BEGUN.
commit_fails_rollback(exc) ==
    /\ _stage' = BEGUN
    /\ pc' = "idle"
    /\ Raises("commit", exc)

\* Mutant: the except branch raises a new error without the cause.
commit_fails_wrapped(exc) ==
    /\ _stage' = FAILED
    /\ pc' = "idle"
    /\ Raises("commit", "RuntimeError")

\* Mutant: the except branch still deletes the files recorded so far.
commit_fails_then_cleanup(exc) ==
    /\ _stage' = FAILED
    /\ pc' = IF deleting_files = <<>> THEN "idle" ELSE "remove"
    /\ Raises("commit", exc)

\* except BaseException: stage = FAILED; raise
commit_fails(exc) ==
    /\ _stage' = FAILED
    /\ pc' = "idle"
    /\ Raises("commit", exc)

\* The loop over snap_disks is over: stage = FINISHED, then the cleanup starts
\* with the files recorded in files.
commit_loop_done(files) ==
    /\ _stage' = FINISHED
    /\ exceptions' = <<>>
    /\ IF files = <<>>
       THEN pc' = "idle" /\ Returns("commit", None)
       ELSE pc' = "remove" /\ UNCHANGED seen

\* The poll loop of disk idx is left by break: deleting_files.append(live_file),
\* then the next disk, or the end of the loop.
commit_disk_done ==
    LET files == Append(deleting_files, snap_disks[idx].file)
    IN  /\ deleting_files' = files
        /\ npolls' = 0
        /\ IF idx < Len(snap_disks)
           THEN /\ idx' = idx + 1
                /\ pc' = "blockCommit"
                /\ UNCHANGED <<_stage, exceptions, seen>>
           ELSE /\ UNCHANGED idx
                /\ commit_loop_done(files)

\* Mutant: the stage is not set to COMMITTING.
commit_keeps_stage ==
    /\ pc = "idle"
    /\ IF ~_check_stage(BEGUN)
       THEN BadStage("commit")
       ELSE /\ _stage' = _stage
            /\ pc' = "isActive"
            /\ Running("commit")
            /\ NoExternalCall
            /\ UNCHANGED <<config, _disk_filter, fields, _snapshot_disks_readonly,
                           active, deleting_files, idx, npolls, exceptions>>

\* commit() up to its first external call
commit ==
    /\ pc = "idle"
    /\ IF ~_check_stage(BEGUN)
       THEN BadStage("commit")
       ELSE /\ _stage' = COMMITTING
            /\ pc' = "isActive"
            /\ Running("commit")
            /\ NoExternalCall
            /\ UNCHANGED <<config, _disk_filter, fields, _snapshot_disks_readonly,
                           active, deleting_files, idx, npolls, exceptions>>

\* active = self._domain.isActive(), and the code up to the first blockCommit
commit_isActive ==
    /\ pc = "isActive"
    /\ \E res \in {"true", "false"} \cup HvExceptions :
         /\ hvcall' = Some(HvCall("isActive", "", EmptyPath, {}, res, None))
         /\ IF res \in HvExceptions
            THEN /\ commit_fails(res)
                 /\ UNCHANGED <<active, deleting_files, idx, npolls, exceptions>>
            ELSE /\ active' = (res = "true")
                 /\ deleting_files' = <<>>
                 /\ npolls' = 0
                 /\ IF snap_disks = <<>>
                    THEN /\ commit_loop_done(<<>>)
                         /\ UNCHANGED idx
                    ELSE /\ idx' = 1
                         /\ pc' = "blockCommit"
                         /\ UNCHANGED <<_stage, exceptions, seen>>
    /\ nactive' = nactive + 1
    /\ UNCHANGED <<config, _disk_filter, fields, _snapshot_disks_readonly,
                   ncreate, committed, pivoted, removed>>

\* self._domain.blockCommit(device_name, None, live_file, bandwidth, flags)
commit_blockCommit ==
    /\ pc = "blockCommit"
    /\ \E res \in {"ok"} \cup HvExceptions :
         /\ hvcall' = Some(HvCall("blockCommit", snap_disks[idx].name,
                                  snap_disks[idx].file, block_commit_flags, res, None))
         /\ IF res = "ok"
            THEN /\ pc' = "blockJobInfo"
                 /\ UNCHANGED <<_stage, seen>>
            ELSE commit_fails(res)
    /\ committed' = Append(committed, snap_disks[idx].name)
    /\ UNCHANGED <<config, _disk_filter, fields, _snapshot_disks_readonly,
                   active, deleting_files, idx, npolls, exceptions,
                   ncreate, nactive, pivoted, removed>>

\* info = self._domain.blockJobInfo(device_name, 0), and the loop body after it
commit_blockJobInfo ==
    /\ pc = "blockJobInfo"
    /\ \/ \E exc \in HvExceptions :
            /\ hvcall' = Some(HvCall("blockJobInfo", snap_disks[idx].name,
                                     EmptyPath, {}, exc, None))
            /\ commit_fails(exc)
            /\ UNCHANGED <<active, deleting_files, idx, npolls, exceptions>>
       \/ \E info \in JobInfos :
            /\ hvcall' = Some(HvCall("blockJobInfo", snap_disks[idx].name,
                                     EmptyPath, {}, "ok", info))
            /\ IF no_job(info)
               THEN \* not len(info): finish this disk
                    /\ commit_disk_done
                    /\ UNCHANGED active
               ELSE IF job_ready(info)
               THEN \* cur == end: pivot
                    /\ pc' = "blockJobAbort"
                    /\ UNCHANGED <<_stage, active, deleting_files, idx, npolls, exceptions, seen>>
               ELSE IF info[2] = 0
               THEN \* info['cur'] / info['end'] in the arguments of logger.debug
                    /\ commit_fails("ZeroDivisionError")
                    /\ UNCHANGED <<active, deleting_files, idx, npolls, exceptions>>
               ELSE \* time.sleep(10), poll again
                    /\ npolls < MaxPolls
                    /\ npolls' = npolls + 1
                    /\ UNCHANGED <<_stage, pc, active, deleting_files, idx, exceptions, seen>>
    /\ UNCHANGED <<config, _disk_filter, fields, _snapshot_disks_readonly, calls>>

\* self._domain.blockJobAbort(device_name, VIR_DOMAIN_BLOCK_JOB_ABORT_PIVOT)
commit_blockJobAbort ==
    /\ pc = "blockJobAbort"
    /\ \E res \in {"ok"} \cup HvExceptions :
         /\ hvcall' = Some(HvCall("blockJobAbort", snap_disks[idx].name,
                                  EmptyPath, {"PIVOT"}, res, None))
         /\ IF res = "ok"
            THEN /\ commit_disk_done
                 /\ UNCHANGED active
            ELSE /\ commit_fails(res)
                 /\ UNCHANGED <<active, deleting_files, idx, npolls, exceptions>>
    /\ pivoted' = Append(pivoted, snap_disks[idx].name)
    /\ UNCHANGED <<config, _disk_filter, fields, _snapshot_disks_readonly,
                   ncreate, nactive, committed, removed>>

\* What os.remove(file) may do: return, raise an exception the cleanup
\* catches (OSError, RuntimeError), or raise one it does not catch.
RemoveCaught == {"OSError", "RuntimeError"}
RemoveOutcomes == {"ok"} \cup RemoveCaught \cup {"KeyboardInterrupt"}

\* Mutant: the cleanup gives up at the first file it cannot delete.
commit_remove_stops_at_failure ==
    /\ pc = "remove"
    /\ \E res \in RemoveOutcomes :
         LET file == deleting_files[Len(removed) + 1]
             excs == IF res \in RemoveCaught
                     THEN Append(exceptions, [file |-> file, exc |-> res])
                     ELSE exceptions
         IN  /\ removed' = Append(removed, [file |-> file, res |-> res])
             /\ exceptions' = excs
             /\ IF res \notin {"ok"} \cup RemoveCaught
                THEN /\ pc' = "idle"
                     /\ Raises("commit", res)
                ELSE IF res = "ok" /\ Len(removed) + 1 < Len(deleting_files)
                THEN UNCHANGED <<pc, seen>>
                ELSE /\ pc' = "idle"
                     /\ IF excs # <<>>
                        THEN /\ lastop' = "commit"
                             /\ lastarg' = None
                             /\ raised' = "RuntimeError"
                             /\ retval' = None
                             /\ message' = Some([count |-> Len(excs), cause |-> excs[1]])
                        ELSE Returns("commit", None)
    /\ hvcall' = None
    /\ UNCHANGED <<config, _disk_filter, _stage, fields, _snapshot_disks_readonly,
                   active, deleting_files, idx, npolls,
                   ncreate, nactive, committed, pivoted>>

\* os.remove(file) of the next recorded file: an OSError or RuntimeError is
\* collected, any other exception leaves commit() at once; after the last
\* file, the RuntimeError that aggregates the collected failures
commit_remove ==
    /\ pc = "remove"
    /\ \E res \in RemoveOutcomes :
         LET file == deleting_files[Len(removed) + 1]
             excs == IF res \in RemoveCaught
                     THEN Append(exceptions, [file |-> file, exc |-> res])
                     ELSE exceptions
         IN  /\ removed' = Append(removed, [file |-> file, res |-> res])
             /\ exceptions' = excs
             /\ IF res \notin {"ok"} \cup RemoveCaught
                THEN /\ pc' = "idle"
                     /\ Raises("commit", res)
                ELSE IF Len(removed) + 1 < Len(deleting_files)
                THEN UNCHANGED <<pc, seen>>
                ELSE /\ pc' = "idle"
                     /\ IF excs # <<>>
                        THEN /\ lastop' = "commit"
                             /\ lastarg' = None
                             /\ raised' = "RuntimeError"
                             /\ retval' = None
                             /\ message' = Some([count |-> Len(excs), cause |-> excs[1]])
                        ELSE Returns("commit", None)
    /\ hvcall' = None
    /\ UNCHANGED <<config, _disk_filter, _stage, fields, _snapshot_disks_readonly,
                   active, deleting_files, idx, npolls,
                   ncreate, nactive, committed, pivoted>>

(***************************************************************************)
(* The specification.                                                      *)
(***************************************************************************)
Next ==
    \/ initialize
    \/ prepare
    \/ begin
    \/ commit
    \/ commit_isActive
    \/ commit_blockCommit
    \/ commit_blockJobInfo
    \/ commit_blockJobAbort
    \/ commit_remove
    \/ \E func \in Filters : disk_filter_setter(func)
    \/ stage
    \/ snapshot_xml
    \/ snapshot_flags
    \/ snapshot_disks

Spec == Init /\ [][Next]_vars

(***************************************************************************)
(* clone_vm: the context manager of the package, and a caller that uses it *)
(* in a with statement.  with_block is "none" until the generator yields,  *)
(* "inside" while the caller's block runs, and then how the block was      *)
(* left.  An exception of initialize, prepare or begin leaves the          *)
(* generator, so none of its later calls is made.                          *)
(***************************************************************************)
\* vmt = VMTransaction(domain, *args, **kwargs); vmt.initialize()
clone_vm_initialize ==
    /\ with_block = "none" /\ lastop = "__init__"
    /\ initialize

\* vmt.prepare()
clone_vm_prepare ==
    /\ with_block = "none" /\ lastop = "initialize" /\ raised = "none"
    /\ prepare

\* vmt.begin()
clone_vm_begin ==
    /\ with_block = "none" /\ lastop = "prepare" /\ raised = "none"
    /\ begin

\* yield vmt: the with-block of the caller starts
clone_vm_yield ==
    /\ with_block = "none" /\ lastop = "begin" /\ raised = "none"
    /\ with_block' = "inside"
    /\ UNCHANGED <<_domain, _workdir, _disk_only, _quiesce, _disk_filter, _stage, fields,
                   _snapshot_disks_readonly, locals, env, seen>>

\* the caller's block looks at the disks it has to copy
with_block_reads ==
    /\ with_block = "inside"
    /\ snapshot_disks

\* The caller's block ends, by reaching its end or by an exception.  The
\* exception is thrown into the generator at its yield, which has no try
\* around it: the generator ends with that exception and __exit__ is over.
with_block_exits ==
    /\ with_block = "inside"
    /\ \E how \in {"returned", "raised"} : with_block' = how
    /\ UNCHANGED <<_domain, _workdir, _disk_only, _quiesce, _disk_filter, _stage, fields,
                   _snapshot_disks_readonly, locals, env, seen>>

\* vmt.commit(): the generator resumes after its yield when the block returned
clone_vm_commit ==
    /\ with_block = "returned" /\ pc = "idle" /\ lastop # "commit"
    /\ commit

NextClone ==
    \/ clone_vm_initialize
    \/ clone_vm_prepare
    \/ clone_vm_begin
    \/ clone_vm_yield
    \/ with_block_reads
    \/ with_block_exits
    \/ clone_vm_commit
    \/ commit_isActive
    \/ commit_blockCommit
    \/ commit_blockJobInfo
    \/ commit_blockJobAbort
    \/ commit_remove

SpecClone == Init /\ [][NextClone]_vars


(***************************************************************************)
(* Claims.                                                                 *)
(***************************************************************************)
\* The step is a call of the public operation op (a call starts only when
\* no commit() is running).
Called(op) == pc = "idle" /\ lastop' = op

StageOps == {"initialize", "prepare", "begin", "commit"}
SnapshotAccessors == {"snapshot_xml", "snapshot_flags", "snapshot_disks"}
BeginCommitCalls == {"snapshotCreateXML", "isActive", "blockCommit", "blockJobInfo", "blockJobAbort"}

\* The stage each stage-advancing operation requires.
RequiredStage(op) ==
    CASE op = "initialize" -> UNINITIALIZED
      [] op = "prepare" -> INITIALIZED
      [] op = "begin" -> PREPARED
      [] op = "commit" -> BEGUN

\* C1: initialize(), prepare(), begin() or commit() called in a stage other
\* than the one it requires raises BadStageError, makes no hypervisor call,
\* removes no file, and leaves the stage as it was.
C1_OutOfOrderRejected ==
    [][\A op \in StageOps :
          (Called(op) /\ _stage # RequiredStage(op))
             => /\ raised' = "BadStageError"
                /\ hvcall' = None
                /\ UNCHANGED calls
                /\ _stage' = _stage]_vars

\* C1 witness: commit() was called on a finished transaction and rejected.
C1_Witness ==
    lastop = "commit" /\ raised = "BadStageError" /\ _stage = FINISHED /\ removed # <<>>

\* C2: FAILED is absorbing: from a FAILED state every step leaves the stage
\* FAILED, makes no hypervisor call and removes no file, and every call of
\* initialize/prepare/begin/commit raises BadStageError.
C2_FailedAbsorbing ==
    [][_stage = FAILED
          => /\ _stage' = FAILED
             /\ hvcall' = None
             /\ UNCHANGED calls
             /\ \A op \in StageOps : Called(op) => raised' = "BadStageError"]_vars

\* C2 witness: begin() was called again after the transaction failed.
C2_Witness ==
    _stage = FAILED /\ lastop = "begin" /\ raised = "BadStageError" /\ ncreate = 1

\* C3: every change of the stage is a step to the next stage of
\* UNINITIALIZED .. FINISHED, or a step to FAILED; FINISHED and FAILED have
\* no successor.
C3_StageSteps ==
    [][_stage' # _stage
          => \/ _stage \in UNINITIALIZED..COMMITTING /\ _stage' = _stage + 1
             \/ _stage \notin {FINISHED, FAILED} /\ _stage' = FAILED]_vars

\* C3 witness: a transaction went all the way to FINISHED, one disk pivoted
\* and the job of the other gone.
C3_Witness == _stage = FINISHED /\ pc = "idle" /\ Len(pivoted) = 1 /\ Len(committed) = 2

\* C4: when a hypervisor call of begin() or commit() raises, the step that
\* made the call sets the stage to FAILED and hands the same exception to
\* the caller; and whenever begin() or commit() has ended with the exception
\* of a hypervisor call the stage is FAILED (so neither BEGUN nor FINISHED).
C4_FailureSetsFailed ==
    /\ [][(/\ hvcall' # None
           /\ hvcall'[1].fn \in BeginCommitCalls
           /\ hvcall'[1].res \in HvExceptions)
             => /\ _stage' = FAILED
                /\ pc' = "idle"
                /\ lastop' \in {"begin", "commit"}
                /\ raised' = hvcall'[1].res]_vars
    /\ []((/\ lastop \in {"begin", "commit"}
           /\ hvcall # None
           /\ hvcall[1].fn \in BeginCommitCalls
           /\ raised = hvcall[1].res) => _stage = FAILED)

\* C4 witness: the pivot of the second disk was interrupted.
C4_Witness ==
    /\ hvcall # None
    /\ hvcall[1].fn = "blockJobAbort"
    /\ hvcall[1].res = "KeyboardInterrupt"
    /\ raised = "KeyboardInterrupt"
    /\ Len(committed) = 2

\* C5 as stated: the stage held right before FAILED is BEGUN or COMMITTING.
C5_Original ==
    [][(_stage' = FAILED /\ _stage # FAILED) => _stage \in {BEGUN, COMMITTING}]_vars

\* C5 amended: the stage held right before FAILED is PREPARED (a snapshot
\* creation that failed in begin()) or COMMITTING (a step of commit() that
\* failed), never UNINITIALIZED, INITIALIZED or BEGUN.
C5_FailedFromPreparedOrCommitting ==
    [][(_stage' = FAILED /\ _stage # FAILED)
          => \/ _stage = PREPARED /\ lastop' = "begin"
             \/ _stage = COMMITTING /\ lastop' = "commit"]_vars

\* C5 witness: a snapshot creation failed.
C5_Witness ==
    /\ _stage = FAILED /\ lastop = "begin" /\ raised \in HvExceptions
    /\ hvcall # None /\ hvcall[1].fn = "snapshotCreateXML"

\* C6: snapshotCreateXML is invoked at most once and the commit loop is
\* entered at most once: one isActive, and no more blockCommits than disks.
C6_SingleUse ==
    /\ ncreate <= 1
    /\ nactive <= 1
    /\ Len(committed) <= Len(_snapshot_disks)

\* C6 witness: begin() failed, was called again, and no second snapshot
\* creation was made.
C6_Witness ==
    /\ ncreate = 1 /\ _stage = FAILED /\ nactive = 0
    /\ lastop = "begin" /\ raised = "BadStageError"

\* C7 as stated: the assignment succeeds in UNINITIALIZED and is rejected,
\* with the selector unchanged, in every other stage.
C7_Original ==
    [][Called("disk_filter=")
          => IF _stage = UNINITIALIZED
             THEN raised' = "none" /\ _disk_filter' = lastarg'[1]
             ELSE raised' = "BadStageError" /\ _disk_filter' = _disk_filter]_vars

\* C7 amended: the assignment succeeds in UNINITIALIZED and in INITIALIZED
\* (until prepare() has succeeded); in PREPARED, BEGUN, COMMITTING, FINISHED
\* and FAILED it raises BadStageError and leaves the selector unchanged; and
\* nothing but a successful assignment changes the selector.
C7_FilterUntilPrepared ==
    [][/\ Called("disk_filter=")
          => IF _stage \in {UNINITIALIZED, INITIALIZED}
             THEN raised' = "none" /\ _disk_filter' = lastarg'[1]
             ELSE raised' = "BadStageError" /\ _disk_filter' = _disk_filter
       /\ _disk_filter' # _disk_filter
          => Called("disk_filter=") /\ _stage \in {UNINITIALIZED, INITIALIZED}]_vars

\* C7 witness: the selector was replaced after initialize().
C7_Witness ==
    /\ _stage = INITIALIZED /\ lastop = "disk_filter=" /\ raised = "none"
    /\ lastarg = Some("accept_all") /\ _disk_filter = "accept_all"

\* C8: once prepare() has succeeded, no step changes the selected disks, the
\* snapshot descriptor or the creation flags, nor the sequence snapshot_disks
\* has handed out.
C8_FrozenAfterPrepared ==
    [][/\ _snapshot_xmltree # None
          => UNCHANGED <<_snapshot_disks, _snapshot_xmltree, _snapshot_flags>>
       /\ _snapshot_disks_readonly # None
          => UNCHANGED _snapshot_disks_readonly]_vars

\* C8 witness: a prepared transaction with two disks failed and prepare()
\* was called on it again.
C8_Witness ==
    /\ _stage = FAILED /\ lastop = "prepare" /\ raised = "BadStageError"
    /\ _snapshot_xmltree # None /\ Len(_snapshot_disks) = 2

\* The triples snapshot_disks is to hand out: device, source path and source
\* kind of each selected disk, in order.
ExpectedTriples ==
    [i \in 1..Len(_snapshot_disks) |->
       [device |-> _snapshot_disks[i].dev,
        source |-> _snapshot_disks[i].source,
        source_type |-> _snapshot_disks[i].type]]
\* every selected disk is file- or block-backed
AllFileOrBlock ==
    \A i \in 1..Len(_snapshot_disks) : _snapshot_disks[i].type \in {"file", "block"}

\* C9 as stated (for file- and block-backed disks): reading snapshot_disks
\* raises BadStageError before prepare() has succeeded and returns the frozen
\* triples of device, source path and source kind in every state after it,
\* FAILED included; the stage is readable in every state.
C9_Original ==
    [][/\ Called("snapshot_disks")
          => IF _snapshot_xmltree = None
             THEN raised' = "BadStageError"
             ELSE /\ raised' # "BadStageError"
                  /\ AllFileOrBlock => raised' = "none" /\ retval' = ExpectedTriples
       /\ Called("stage") => raised' = "none" /\ retval' = Some(_stage)]_vars

\* C10: prepare() in stage INITIALIZED raises the configuration error
\* (TypeError), makes no hypervisor call and leaves the stage INITIALIZED when
\* (a) disk_only is false and no workdir is set, whatever the disks, or (b) no
\* workdir is set and a selected disk is block-backed; after that the
\* snapshot accessors raise BadStageError.
C10_ConfigurationError ==
    /\ [][/\ (/\ Called("prepare")
              /\ _stage = INITIALIZED
              /\ \/ ~_disk_only /\ ~Truthy(_workdir)
                 \/ /\ ~Truthy(_workdir)
                    /\ \E i \in 1..Len(_snapshot_disks') : _snapshot_disks'[i].type = "block")
             => /\ raised' = "TypeError"
                /\ hvcall' = None
                /\ UNCHANGED calls
                /\ _stage' = INITIALIZED
          /\ \A acc \in SnapshotAccessors :
                (Called(acc) /\ lastop = "prepare" /\ raised = "TypeError")
                   => raised' = "BadStageError" /\ retval' = None]_vars
    /\ []((lastop = "prepare" /\ raised = "TypeError")
             => _stage = INITIALIZED /\ _snapshot_xmltree = None)

\* C10 witness: prepare() raised with memory capture requested, no workdir
\* and an empty disk list.
C10_Witness ==
    /\ ~_disk_only /\ ~Truthy(_workdir) /\ _snapshot_disks = <<>>
    /\ _disk_filter = "reject_all" /\ _stage = INITIALIZED
    /\ lastop = "prepare" /\ raised = "TypeError"

\* The step polled the block job of a device and the call returned.
Polled == hvcall' # None /\ hvcall'[1].fn = "blockJobInfo" /\ hvcall'[1].res = "ok"
\* The step issued blockJobAbort.
Pivoting == hvcall' # None /\ hvcall'[1].fn = "blockJobAbort"
\* The delta path the descriptor records for the disk commit() is working on.
CurrentDelta == _snapshot_xmltree[1].disks[idx].file
\* the devices in a sequence of device names
Devices(seq) == {seq[i] : i \in 1..Len(seq)}

\* C11: in commit(), a poll that reports cur == end is followed by the pivot
\* of that device and by no further poll of it, and a device is pivoted at
\* most once; a poll that reports no job is followed by no pivot of that
\* device; every pivot directly follows a poll of the same device that
\* reported cur == end; and when the disk is done (no job, or the pivot
\* returned) its delta path is appended to the files to delete.
C11_PollPivot ==
    [][/\ Polled
          => /\ hvcall'[1].dev \notin Devices(pivoted)
             /\ pivoted' = pivoted
             /\ IF hvcall'[1].info = None
                THEN /\ pc' # "blockJobAbort"
                     /\ deleting_files' = Append(deleting_files, CurrentDelta)
                ELSE (hvcall'[1].info[1] = hvcall'[1].info[2])
                        => pc' = "blockJobAbort" /\ idx' = idx
       /\ Pivoting
          => /\ hvcall # None
             /\ hvcall[1].fn = "blockJobInfo"
             /\ hvcall[1].dev = hvcall'[1].dev
             /\ hvcall[1].info # None
             /\ hvcall[1].info[1] = hvcall[1].info[2]
             /\ hvcall'[1].flags = {"PIVOT"}
             /\ hvcall'[1].dev \notin Devices(pivoted)
             /\ pivoted' = Append(pivoted, hvcall'[1].dev)
             /\ pc' # "blockJobInfo"
             /\ hvcall'[1].res = "ok"
                   => deleting_files' = Append(deleting_files, CurrentDelta)]_vars

\* C11 witness: the first disk was pivoted, the job of the second was gone,
\* and both delta paths were recorded.
C11_Witness ==
    /\ _stage = FINISHED /\ pivoted = <<"vda">> /\ committed = <<"vda", "vdb">>
    /\ Len(deleting_files) = 2

\* C12 as stated: a poll whose status has end == 0 is treated like an absent
\* status: no pivot follows, commit() does not fail, and the disk is done.
C12_Original ==
    [][(Polled /\ hvcall'[1].info # None /\ hvcall'[1].info[2] = 0)
          => /\ pc' # "blockJobAbort"
             /\ _stage' # FAILED
             /\ deleting_files' = Append(deleting_files, CurrentDelta)]_vars

\* The indexes of the deletions in rem that failed.
FailedRemovals(rem) == {i \in 1..Len(rem) : rem[i].res # "ok"}
\* The indexes of the deletions in rem that failed with an exception the
\* cleanup catches.
CaughtRemovals(rem) == {i \in 1..Len(rem) : rem[i].res \in RemoveCaught}
\* The first deletion in rem whose index is in the nonempty set idxs.
FirstOf(rem, idxs) ==
    LET i == CHOOSE k \in idxs : \A j \in idxs : k <= j
    IN  [file |-> rem[i].file, exc |-> rem[i].res]

\* C13 as stated: when commit() ends after the loop over all disks, a
\* deletion has been attempted for every recorded file, whether or not an
\* earlier one failed; with k >= 1 failed deletions commit() raises the
\* aggregate RuntimeError reporting k failures with the first failure as its
\* cause, and with none it returns normally; the stage is FINISHED.
C13_Original ==
    [][/\ pc' = "remove" => _stage' = FINISHED
       /\ (pc # "idle" /\ pc' = "idle" /\ _stage' = FINISHED)
          => /\ lastop' = "commit"
             /\ Len(removed') = Len(deleting_files')
             /\ \A i \in 1..Len(removed') : removed'[i].file = deleting_files'[i]
             /\ IF FailedRemovals(removed') = {}
                THEN raised' = "none"
                ELSE /\ raised' = "RuntimeError"
                     /\ message' = Some([count |-> Cardinality(FailedRemovals(removed')),
                                         cause |-> FirstOf(removed', FailedRemovals(removed'))])]_vars

\* C13 amended: the cleanup runs with the stage FINISHED and attempts the
\* recorded files in order.  A deletion that raises OSError or RuntimeError
\* is collected and the next file is attempted; a deletion that raises
\* anything else ends commit() at once with that exception, the later files
\* unattempted.  When no such exception occurred, every recorded file has
\* been attempted when commit() ends: with k >= 1 collected failures
\* commit() raises RuntimeError reporting k failures with the first of them
\* as its cause, and with none it returns normally.
C13_Cleanup ==
    [][/\ pc' = "remove" => _stage' = FINISHED
       /\ (pc = "remove" /\ pc' = "remove")
             => removed'[Len(removed')].res \in {"ok"} \cup RemoveCaught
       /\ (pc # "idle" /\ pc' = "idle" /\ _stage' = FINISHED)
          => /\ lastop' = "commit"
             /\ Len(deleting_files') = Len(_snapshot_xmltree[1].disks)
             /\ Len(removed') <= Len(deleting_files')
             /\ \A i \in 1..Len(removed') : removed'[i].file = deleting_files'[i]
             /\ \A i \in 1..(Len(removed') - 1) : removed'[i].res \in {"ok"} \cup RemoveCaught
             /\ IF removed' # <<>> /\ removed'[Len(removed')].res \notin {"ok"} \cup RemoveCaught
                THEN raised' = removed'[Len(removed')].res
                ELSE /\ Len(removed') = Len(deleting_files')
                     /\ IF CaughtRemovals(removed') = {}
                        THEN raised' = "none"
                        ELSE /\ raised' = "RuntimeError"
                             /\ message' = Some([count |-> Cardinality(CaughtRemovals(removed')),
                                                 cause |-> FirstOf(removed', CaughtRemovals(removed'))])]_vars

\* C13 witness: the first of two deletions failed, the second was still
\* attempted, and commit() raised the aggregate error for one failure.
C13_Witness ==
    /\ _stage = FINISHED /\ pc = "idle" /\ lastop = "commit" /\ raised = "RuntimeError"
    /\ Len(removed) = 2 /\ removed[1].res = "OSError" /\ removed[2].res = "ok"
    /\ message[1].count = 1

\* C14: whenever a deletion of a delta file has been attempted the stage is
\* FINISHED, and a transaction whose stage is FAILED has deleted no file.
C14_DeleteOnlyFinished ==
    /\ removed # <<>> => _stage = FINISHED
    /\ pc = "remove" => _stage = FINISHED
    /\ _stage = FAILED => removed = <<>> /\ pc = "idle"

\* C14 witness: commit() failed at the second disk after the first was done,
\* and nothing has been deleted.
C14_Witness ==
    /\ _stage = FAILED /\ lastop = "commit" /\ pc = "idle"
    /\ Len(committed) = 2 /\ Len(deleting_files) = 1 /\ removed = <<>>

\* commit() has ended by raising out of its loop over the disks.
CommitLoopFailed == _stage = FAILED /\ pc = "idle" /\ nactive = 1

\* C15 as stated: once commit() has failed in its loop, the delta files of
\* the disks done before the failure have been deleted, and no others.
C15_Original ==
    CommitLoopFailed
       => /\ Len(removed) = Len(deleting_files)
          /\ \A i \in 1..Len(removed) : removed[i].file = deleting_files[i]

\* C15 amended: a step of commit()'s loop that raises ends commit() at once:
\* no deletion has been or will be attempted, neither for the disks done
\* before the failure nor for the failing disk or the later ones.
C15_NothingDeletedOnFailure ==
    [][(pc # "idle" /\ _stage' = FAILED)
          => /\ pc' = "idle"
             /\ raised' # "none"
             /\ removed' = <<>>
             /\ deleting_files' = deleting_files]_vars

\* C15 witness: blockCommit of the second disk raised after the first disk
\* was pivoted; the first disk's delta file is recorded but not deleted.
C15_Witness ==
    /\ CommitLoopFailed /\ hvcall # None /\ hvcall[1].fn = "blockCommit"
    /\ pivoted = <<"vda">> /\ Len(deleting_files) = 1 /\ removed = <<>>

\* C17: commit() works through the descriptor's disks one at a time, in the
\* descriptor's order, which is the order of snapshot_disks: the devices
\* block-committed so far are a prefix of the descriptor's devices (so each
\* is committed once), the files recorded for deletion are the delta paths of
\* the disks done, in that order, a blockCommit is issued only when every
\* earlier disk is done, every poll and pivot is for the device committed
\* last, and on success every disk was committed and recorded.
C17_DescriptorOrder ==
    _snapshot_xmltree # None =>
       LET d == _snapshot_xmltree[1].disks
       IN  /\ Len(committed) <= Len(d)
           /\ Len(_snapshot_disks) = Len(d)
           /\ \A i \in 1..Len(committed) :
                 committed[i] = d[i].name /\ committed[i] = _snapshot_disks[i].dev
           /\ Len(deleting_files) <= Len(committed)
           /\ Len(committed) <= Len(deleting_files) + 1
           /\ \A i \in 1..Len(deleting_files) : deleting_files[i] = d[i].file
           /\ pc = "blockCommit" => Len(committed) = Len(deleting_files)
           /\ pc \in {"blockJobInfo", "blockJobAbort"}
                 => Len(committed) = Len(deleting_files) + 1
           /\ (hvcall # None /\ hvcall[1].fn \in {"blockCommit", "blockJobInfo", "blockJobAbort"})
                 => /\ committed # <<>>
                    /\ hvcall[1].dev = committed[Len(committed)]
           /\ Devices(pivoted) \subseteq Devices(committed)
           /\ _stage = FINISHED
                 => Len(committed) = Len(d) /\ Len(deleting_files) = Len(d)

\* C17 witness: commit() succeeded on two disks, committed vda then vdb, and
\* scheduled their two delta files in that order.
C17_Witness ==
    /\ _stage = FINISHED /\ committed = <<"vda", "vdb">>
    /\ deleting_files = <<_snapshot_xmltree[1].disks[1].file, _snapshot_xmltree[1].disks[2].file>>
    /\ deleting_files[1] # deleting_files[2]

\* C19 as stated, its last part: a poll that reports cur != end leaves the
\* stage at COMMITTING, starts no later disk, and is followed by another poll
\* of the same device, however many polls came before.
C19_Original ==
    [][(Polled /\ hvcall'[1].info # None /\ hvcall'[1].info[1] # hvcall'[1].info[2])
          => /\ _stage' = COMMITTING
             /\ pc' = "blockJobInfo"
             /\ idx' = idx
             /\ committed' = committed]_vars

\* two different positions of a sequence of disks
Pairs(seq) == {p \in (1..Len(seq)) \X (1..Len(seq)) : p[1] < p[2]}

\* C20 as stated: when the selected disks have pairwise distinct device names
\* and pairwise distinct source paths, the delta paths of the descriptor that
\* prepare() built are pairwise distinct, with and without a workdir.
C20_Original ==
    (_snapshot_xmltree # None
       /\ \A p \in Pairs(_snapshot_disks) :
             /\ _snapshot_disks[p[1]].dev # _snapshot_disks[p[2]].dev
             /\ _snapshot_disks[p[1]].source # _snapshot_disks[p[2]].source)
       => \A p \in Pairs(_snapshot_xmltree[1].disks) :
             _snapshot_xmltree[1].disks[p[1]].file # _snapshot_xmltree[1].disks[p[2]].file

\* C16 as stated: once begin() succeeded in clone_vm and the caller's block
\* has been left, by its end or by an exception, and the with statement is
\* over, commit() has been invoked exactly once: the stage is not BEGUN.
C16_Original ==
    (\/ with_block = "raised"
     \/ with_block = "returned" /\ lastop = "commit" /\ pc = "idle")
       => _stage # BEGUN /\ nactive = 1

\* The step issued blockCommit.
BlockCommitting == hvcall' # None /\ hvcall'[1].fn = "blockCommit"

\* C18: one commit() calls isActive exactly once, before its first
\* blockCommit, and keeps the answer: no later step of commit() changes it or
\* asks again, whatever the domain does meanwhile (each call's answer is
\* chosen anew, so a second query could differ).  Every blockCommit has the
\* flag SHALLOW, the flag ACTIVE exactly when that one answer was true, no
\* other flag, and bandwidth 0.
C18_ActiveOnce ==
    [][/\ nactive' <= 1
       /\ (hvcall' # None /\ hvcall'[1].fn = "isActive")
             => /\ nactive = 0 /\ committed = <<>>
                /\ hvcall'[1].res \in {"true", "false"} => active' = (hvcall'[1].res = "true")
       /\ (pc \notin {"idle", "isActive"}) => active' = active
       /\ BlockCommitting
             => /\ nactive = 1 /\ nactive' = 1
                /\ "SHALLOW" \in hvcall'[1].flags
                /\ "ACTIVE" \in hvcall'[1].flags <=> active
                /\ hvcall'[1].flags \subseteq {"SHALLOW", "ACTIVE"}
                /\ hvcall'[1].bandwidth = Some(0)]_vars

\* C18 witness: the second disk was block-committed without the active flag,
\* after the one isActive call answered false.
C18_Witness ==
    /\ Len(committed) = 2 /\ nactive = 1 /\ ~active
    /\ hvcall # None /\ hvcall[1].fn = "blockCommit" /\ hvcall[1].flags = {"SHALLOW"}

====
